---- MODULE Spec2Model ----
(***************************************************************************)
(* Model of the ant-colony route discovery engine (RouteDiscovery, Ant) of *)
(* src/unnamed/part_001, lines 328-594.                                    *)
(*                                                                         *)
(* float64 values are modelled as non-negative binary64 values (a 53-bit   *)
(* significand times a power of two) extended with +Inf and NaN, with the  *)
(* IEEE-754 rules, rounding to nearest-even included, for the operations   *)
(* the code uses: product, quotient, sum, comparison and math.Pow with the *)
(* integral exponents alpha and beta.  Cities are 0-based as in the code;  *)
(* Go slices indexed by a position (tasks, ants, trail) are 1-based        *)
(* sequences, so slice index k is sequence index k+1.                      *)
(***************************************************************************)
EXTENDS Integers, Sequences, FiniteSets, TLC

VARIABLES
    tasks,           \* rd.tasks: the task list handed to NewRouteDiscovery
    pc,              \* position of the caller / of InitiateOptimization
    numberOfCities,  \* rd.numberOfCities
    numberOfAnts,    \* rd.numberOfAnts
    pheromones,      \* rd.pheromones[i][j]
    distances,       \* rd.distances[i][j]
    probabilities,   \* rd.probabilities[j]
    ants,            \* rd.ants
    currentIndex,    \* rd.currentIndex
    bestTourOrder,   \* rd.bestTourOrder (Nil while the slice is nil)
    bestTourLength,  \* rd.bestTourLength
    iter,            \* loop variable i of InitiateOptimization
    antIx,           \* position of the inner loop of moveAnts (0-based ant index)
    priorityMap,     \* value returned by the last getPriorityMap call (Nil: none)
    panicMsg         \* message of the panic that ended the run ("" : none)

vars == <<tasks, pc, numberOfCities, numberOfAnts, pheromones, distances,
          probabilities, ants, currentIndex, bestTourOrder, bestTourLength,
          iter, antIx, priorityMap, panicMsg>>

\* a nil slice or map: a value no trail and no priority map takes
Nil == <<-1>>

(***************************************************************************)
(* Natural numbers of any size: little-endian sequences of limbs in        *)
(* 0..Base-1 without a zero top limb (<<>> is 0).  TLC's integers have 32  *)
(* bits; the 53-bit significands of float64 and their products need more.  *)
(***************************************************************************)
Base == 32768
LimbBits == 15

Limb(a, i) == IF i <= Len(a) THEN a[i] ELSE 0

RECURSIVE BTrim(_)
BTrim(a) ==
    IF a = <<>> THEN a
    ELSE IF a[Len(a)] = 0 THEN BTrim(SubSeq(a, 1, Len(a) - 1)) ELSE a

RECURSIVE BFromInt(_)
BFromInt(n) == IF n = 0 THEN <<>> ELSE <<n % Base>> \o BFromInt(n \div Base)

RECURSIVE BAddFrom(_, _, _, _)
BAddFrom(a, b, i, c) ==
    IF i > Len(a) /\ i > Len(b) THEN (IF c = 0 THEN <<>> ELSE <<c>>)
    ELSE LET s == Limb(a, i) + Limb(b, i) + c
         IN <<s % Base>> \o BAddFrom(a, b, i + 1, s \div Base)

BAdd(a, b) == BAddFrom(a, b, 1, 0)

\* a - b for a >= b
RECURSIVE BSubFrom(_, _, _, _)
BSubFrom(a, b, i, c) ==
    IF i > Len(a) THEN <<>>
    ELSE LET s == a[i] - Limb(b, i) - c
         IN IF s < 0 THEN <<s + Base>> \o BSubFrom(a, b, i + 1, 1)
            ELSE <<s>> \o BSubFrom(a, b, i + 1, 0)

BSub(a, b) == BTrim(BSubFrom(a, b, 1, 0))

\* -1, 0, 1 as a < b, a = b, a > b
RECURSIVE BCmpFrom(_, _, _)
BCmpFrom(a, b, i) ==
    IF i = 0 THEN 0
    ELSE IF a[i] < b[i] THEN -1
    ELSE IF a[i] > b[i] THEN 1
    ELSE BCmpFrom(a, b, i - 1)

BCmp(a, b) ==
    IF Len(a) < Len(b) THEN -1
    ELSE IF Len(a) > Len(b) THEN 1
    ELSE BCmpFrom(a, b, Len(a))

\* a * k for 0 <= k < Base
RECURSIVE BMulSmallFrom(_, _, _, _)
BMulSmallFrom(a, k, i, c) ==
    IF i > Len(a) THEN (IF c = 0 THEN <<>> ELSE <<c>>)
    ELSE LET s == a[i] * k + c
         IN <<s % Base>> \o BMulSmallFrom(a, k, i + 1, s \div Base)

BMulSmall(a, k) == IF k = 0 THEN <<>> ELSE BMulSmallFrom(a, k, 1, 0)

\* a * Base^n
BShiftLimbs(a, n) == IF a = <<>> THEN a ELSE [i \in 1..n |-> 0] \o a

RECURSIVE BMulFrom(_, _, _)
BMulFrom(a, b, j) ==
    IF j > Len(b) THEN <<>>
    ELSE BAdd(BMulSmall(a, b[j]), BShiftLimbs(BMulFrom(a, b, j + 1), 1))

BMul(a, b) == BMulFrom(a, b, 1)

\* a * 2^n
BShl(a, n) == BMulSmall(BShiftLimbs(a, n \div LimbBits), 2 ^ (n % LimbBits))

\* a \div k for 0 < k <= Base, limbs i..1 with the remainder r carried in
RECURSIVE BDivSmallFrom(_, _, _, _)
BDivSmallFrom(a, k, i, r) ==
    IF i = 0 THEN <<>>
    ELSE LET s == r * Base + a[i]
         IN BDivSmallFrom(a, k, i - 1, s % k) \o <<s \div k>>

\* a \div 2^n
BShr(a, n) ==
    LET w == n \div LimbBits
        hi == IF w >= Len(a) THEN <<>> ELSE SubSeq(a, w + 1, Len(a))
    IN BTrim(BDivSmallFrom(hi, 2 ^ (n % LimbBits), Len(hi), 0))

RECURSIVE BitLenSmall(_)
BitLenSmall(x) == IF x = 0 THEN 0 ELSE 1 + BitLenSmall(x \div 2)

BBitLen(a) ==
    IF a = <<>> THEN 0
    ELSE LimbBits * (Len(a) - 1) + BitLenSmall(a[Len(a)])

BOdd(a) == a # <<>> /\ a[1] % 2 = 1

\* number of trailing zero bits of a # 0
RECURSIVE TrailingZerosSmall(_)
TrailingZerosSmall(x) == IF x % 2 = 1 THEN 0 ELSE 1 + TrailingZerosSmall(x \div 2)

RECURSIVE BTrailingZeros(_, _)
BTrailingZeros(a, i) ==
    IF a[i] = 0 THEN LimbBits + BTrailingZeros(a, i + 1)
    ELSE TrailingZerosSmall(a[i])

\* the largest digit d <= guess with b * d <= r
RECURSIVE BDigit(_, _, _)
BDigit(r, b, guess) ==
    IF BCmp(BMulSmall(b, guess), r) <= 0 THEN guess
    ELSE BDigit(r, b, guess - 1)

\* long division of a by b, b # 0 with a top limb >= Base/2: the limbs
\* i..1 of a are brought down into the remainder r.
\* Result: <<quotient, remainder>>
RECURSIVE BDivModFrom(_, _, _, _)
BDivModFrom(a, b, i, r) ==
    IF i = 0 THEN <<(<<>>), r>>
    ELSE LET r1 == BTrim(<<a[i]>> \o r)
             n == Len(b)
             top == Limb(r1, n + 1) * Base + Limb(r1, n)
             est == top \div b[n]
             d == BDigit(r1, b, IF est < Base THEN est ELSE Base - 1)
             rest == BDivModFrom(a, b, i - 1, BSub(r1, BMulSmall(b, d)))
         IN <<rest[1] \o <<d>>, rest[2]>>

BDivMod(a, b) ==
    LET res == BDivModFrom(a, b, Len(a), <<>>)
    IN <<BTrim(res[1]), res[2]>>

(***************************************************************************)
(* float64: a finite value is m * 2^e with an odd significand m < 2^53     *)
(* (0 is m = <<>>, e = 0).  Every operation rounds its exact result to the *)
(* nearest value with a 53-bit significand, ties to even, as IEEE-754      *)
(* binary64 does, within its exponent range: a result of 2^1024 or more is *)
(* +Inf, and below 2^-1022 the values are the multiples of 2^-1074         *)
(* (subnormals, then 0).  The code computes with non-negative values only, *)
(* so no sign is kept.                                                     *)
(***************************************************************************)
MantissaBits == 53
\* the exponent of the leading bit of the largest finite float64
MaxExponent == 1023
\* the exponent of the smallest positive float64
MinExponent == -1074

Inf == [k |-> "inf", m |-> <<>>, e |-> 0]
NaN == [k |-> "nan", m |-> <<>>, e |-> 0]
Zero == [k |-> "fin", m |-> <<>>, e |-> 0]

IsNaN(a) == a.k = "nan"
IsInf(a) == a.k = "inf"
IsFin(a) == a.k = "fin"
IsZero(a) == a.k = "fin" /\ a.m = <<>>

\* m * 2^e with the trailing zero bits of m moved into the exponent
Canon(m, e) ==
    IF m = <<>> THEN Zero
    ELSE LET tz == BTrailingZeros(m, 1)
         IN [k |-> "fin", m |-> BShr(m, tz), e |-> e + tz]

\* m * 2^e as a float64 when no bit of m is lost: +Inf from 2^1024 on
Ranged(m, e) ==
    IF m = <<>> THEN Zero
    ELSE IF e + BBitLen(m) - 1 > MaxExponent THEN Inf
    ELSE Canon(m, e)

\* the float64 nearest to m * 2^e (sticky: the exact value is slightly
\* above m * 2^e, by less than 2^e), ties to even.  The last bit kept is
\* the 53rd of m, or the one of weight 2^MinExponent when that is higher.
Round(m, e, sticky) ==
    LET norm == e + BBitLen(m) - MantissaBits
        last == IF norm > MinExponent THEN norm ELSE MinExponent
        drop == last - e
    IN IF m = <<>> \/ drop <= 0 THEN Ranged(m, e)
       ELSE IF norm + MantissaBits < MinExponent
            THEN Zero  \* below half the smallest positive float64
       ELSE IF norm + MantissaBits - 1 > MaxExponent THEN Inf
       ELSE LET kept == BShr(m, drop)
                rem == BSub(m, BShl(kept, drop))
                c == BCmp(BShl(rem, 1), BShl(<<1>>, drop))
                up == c > 0 \/ (c = 0 /\ (sticky \/ BOdd(kept)))
            IN Ranged(IF up THEN BAdd(kept, <<1>>) ELSE kept, last)

\* float64(n) for an integer 0 <= n < 2^31
FromInt(n) == Canon(BFromInt(n), 0)

\* a * b
FMul(a, b) ==
    IF IsNaN(a) \/ IsNaN(b) THEN NaN
    ELSE IF IsInf(a) \/ IsInf(b)
         THEN (IF IsZero(a) \/ IsZero(b) THEN NaN ELSE Inf)
         ELSE Round(BMul(a.m, b.m), a.e + b.e, FALSE)

\* a / b for finite a # 0 and b # 0: the divisor is shifted to a full top
\* limb, the dividend so that the quotient has at least MantissaBits + 2 bits
DivFinite(a, b) ==
    LET sb == LimbBits - BitLenSmall(b.m[Len(b.m)])
        yb == BShl(b.m, sb)
        want == MantissaBits + 3 + BBitLen(yb) - BBitLen(a.m)
        sa == IF want > 0 THEN want ELSE 0
        qr == BDivMod(BShl(a.m, sa), yb)
    IN Round(qr[1], a.e - sa - b.e + sb, qr[2] # <<>>)

\* a / b
FDiv(a, b) ==
    IF IsNaN(a) \/ IsNaN(b) THEN NaN
    ELSE IF IsInf(a) THEN (IF IsInf(b) THEN NaN ELSE Inf)
    ELSE IF IsInf(b) THEN Zero
    ELSE IF IsZero(b) THEN (IF IsZero(a) THEN NaN ELSE Inf)
    ELSE IF IsZero(a) THEN Zero
    ELSE DivFinite(a, b)

\* the significands of finite a and b over their common exponent
Aligned(a, b) ==
    LET emin == IF a.e < b.e THEN a.e ELSE b.e
    IN <<BShl(a.m, a.e - emin), BShl(b.m, b.e - emin), emin>>

\* the exponent of the leading bit of finite a # 0
Lead(a) == a.e + BBitLen(a.m) - 1

\* a + b; an operand below half the last bit of the other one is absorbed
FAdd(a, b) ==
    IF IsNaN(a) \/ IsNaN(b) THEN NaN
    ELSE IF IsInf(a) \/ IsInf(b) THEN Inf
    ELSE IF IsZero(a) THEN b
    ELSE IF IsZero(b) THEN a
    ELSE IF Lead(a) - Lead(b) > MantissaBits + 1 THEN a
    ELSE IF Lead(b) - Lead(a) > MantissaBits + 1 THEN b
    ELSE LET al == Aligned(a, b)
         IN Round(BAdd(al[1], al[2]), al[3], FALSE)

\* -1, 0, 1 as a < b, a = b, a > b for finite a and b
Compare(a, b) ==
    IF IsZero(a) THEN (IF IsZero(b) THEN 0 ELSE -1)
    ELSE IF IsZero(b) THEN 1
    ELSE IF Lead(a) < Lead(b) THEN -1
    ELSE IF Lead(a) > Lead(b) THEN 1
    ELSE LET al == Aligned(a, b) IN BCmp(al[1], al[2])

\* a < b
FLess(a, b) ==
    IF IsNaN(a) \/ IsNaN(b) THEN FALSE
    ELSE IF IsInf(a) THEN FALSE
    ELSE IF IsInf(b) THEN TRUE
    ELSE Compare(a, b) < 0

\* a >= b
FGeq(a, b) ==
    IF IsNaN(a) \/ IsNaN(b) THEN FALSE
    ELSE IF IsInf(a) THEN TRUE
    ELSE IF IsInf(b) THEN FALSE
    ELSE Compare(a, b) >= 0

\* the float64 nearest to n/d for integers 0 <= n < 2^31, 0 < d < 2^31
Fin(n, d) == FDiv(FromInt(n), FromInt(d))
One == FromInt(1)

\* math.Frexp(a) for finite a # 0: a = frac * 2^exp with 1/2 <= frac < 1
Frexp(a) ==
    LET len == BBitLen(a.m)
    IN [frac |-> [k |-> "fin", m |-> a.m, e |-> -len], exp |-> a.e + len]

\* math.Ldexp(frac, exp) for finite frac # 0: frac * 2^exp
Ldexp(frac, exp) == Round(frac.m, frac.e + exp, FALSE)

\* the loop of math.Pow over the bits of the integral exponent i, the
\* answer being a1 * 2^ae and the running square x1 * 2^xe: a1 is
\* multiplied by x1 for every set bit, x1 is squared every round and kept
\* in [1/2, 1)
RECURSIVE PowLoop(_, _, _, _, _)
PowLoop(a1, ae, x1, xe, i) ==
    IF i = 0 THEN Ldexp(a1, ae)
    ELSE IF xe < -4096 \/ 4096 < xe THEN Ldexp(a1, ae + xe)
    ELSE LET sq == FMul(x1, x1)
             low == FLess(sq, Fin(1, 2))
         IN PowLoop(IF i % 2 = 1 THEN FMul(a1, x1) ELSE a1,
                    IF i % 2 = 1 THEN ae + xe ELSE ae,
                    IF low THEN FAdd(sq, sq) ELSE sq,
                    IF low THEN 2 * xe - 1 ELSE 2 * xe,
                    i \div 2)

\* math.Pow(a, e) for a >= 0 and an integral exponent e >= 1
FPow(a, e) ==
    IF a = One THEN One
    ELSE IF e = 1 THEN a
    ELSE IF IsNaN(a) THEN NaN
    ELSE IF IsZero(a) THEN Zero
    ELSE IF IsInf(a) THEN Inf
    ELSE PowLoop(One, 0, Frexp(a).frac, Frexp(a).exp, e)

(***************************************************************************)
(* Bounds of the model                                                     *)
(***************************************************************************)
\* longest task list drawn from the task pool
MaxTasks == 2
\* iterations of the main loop that are explored (the code runs 1000)
IterBound == 2
\* rand.Float64() is drawn from {0, 1/FloatGrid, ..., (FloatGrid-1)/FloatGrid}
FloatGrid == 4

(***************************************************************************)
(* Configuration set by NewRouteDiscovery                                  *)
(***************************************************************************)
initialPheromone == One
alpha == 1
beta == 5
remainingFactor == Fin(1, 2)
q == Fin(500, 1)
randomFactor == Fin(1, 100)
maxIterations == IF IterBound < 1000 THEN IterBound ELSE 1000

(***************************************************************************)
(* Inputs                                                                  *)
(***************************************************************************)
\* AllocatedTaskInfo: the fields the engine reads
Task(id, latency, cpu) ==
    [TaskID |-> id,
     FacetsValue |-> [Latency |-> Fin(latency, 1), CPU |-> Fin(cpu, 1)]]

TaskIDs == {7, 8}
Latencies == {0, 1, 10}
CPUs == {0, 2}
TaskPool == {Task(id, l, c) : id \in TaskIDs, l \in Latencies, c \in CPUs}

\* three tasks A, B, C with latencies 10, 1 and 5
ScenarioTasks == <<Task(11, 10, 1), Task(12, 1, 1), Task(13, 5, 1)>>

\* positive facets whose fifth powers leave the float64 range: 2^300, 2^-300
HugeFacet == [k |-> "fin", m |-> <<1>>, e |-> 300]
TinyFacet == [k |-> "fin", m |-> <<1>>, e |-> -300]

\* two tasks with a huge and a tiny Latency
RangeTasks ==
    <<[TaskID |-> 21, FacetsValue |-> [Latency |-> HugeFacet, CPU |-> One]],
      [TaskID |-> 22, FacetsValue |-> [Latency |-> TinyFacet, CPU |-> One]]>>

TaskLists ==
    UNION {[1..n -> TaskPool] : n \in 0..MaxTasks}
        \cup {ScenarioTasks, RangeTasks}

\* the largest value rd.random.Float64() returns: 1 - 2^-53
MaxFloat64Draw ==
    [k |-> "fin", m |-> <<Base - 1, Base - 1, Base - 1, 255>>, e |-> -MantissaBits]

\* rd.random.Float64(): a value of [0, 1)
FloatDraws ==
    {Fin(k, FloatGrid) : k \in 0..(FloatGrid - 1)} \cup {MaxFloat64Draw}
\* rd.random.Intn(n): a value of 0..n-1
IntnDraws(n) == 0..(n - 1)

Cities == 0..(numberOfCities - 1)

(***************************************************************************)
(* NewRouteDiscovery and its helpers                                       *)
(***************************************************************************)
getTotalCities(ts) == Cardinality({ts[k].TaskID : k \in 1..Len(ts)})

generateDistanceMatrix(ts, n) ==
    [i \in 0..(n - 1) |->
        [j \in 0..(n - 1) |->
            IF i = j THEN Zero ELSE ts[i + 1].FacetsValue.Latency]]

clearTrails(n) ==
    [i \in 0..(n - 1) |-> [j \in 0..(n - 1) |-> initialPheromone]]

Init ==
    /\ tasks \in TaskLists
    /\ pc = "start"
    /\ numberOfCities = 0
    /\ numberOfAnts = 0
    /\ pheromones = <<>>
    /\ distances = <<>>
    /\ probabilities = <<>>
    /\ ants = <<>>
    /\ currentIndex = 0
    /\ bestTourOrder = Nil
    /\ bestTourLength = Zero
    /\ iter = 0
    /\ antIx = 0
    /\ priorityMap = Nil
    /\ panicMsg = ""

NewRouteDiscovery ==
    /\ pc = "start"
    /\ LET n == getTotalCities(tasks) IN
        /\ numberOfCities' = n
        /\ numberOfAnts' = n
        /\ distances' = generateDistanceMatrix(tasks, n)
        /\ pheromones' = clearTrails(n)
        /\ probabilities' = [j \in 0..(n - 1) |-> Zero]
    /\ pc' = "constructed"
    /\ UNCHANGED <<tasks, ants, currentIndex, bestTourOrder, bestTourLength,
                   iter, antIx, priorityMap, panicMsg>>

(***************************************************************************)
(* Ant                                                                     *)
(***************************************************************************)
newAnt(trailSize, facetsValues) ==
    [trail |-> [k \in 1..trailSize |-> 0],
     visited |-> [c \in 0..(trailSize - 1) |-> FALSE],
     trailSize |-> trailSize,
     trailLength |-> Zero,
     tourLength |-> Zero,
     facetsValues |-> facetsValues]

\* ant.clear()
clear(ant) ==
    [ant EXCEPT !.visited = [c \in 0..(ant.trailSize - 1) |-> FALSE]]

\* ant.visitCity(ci, city): trail[ci+1] = city, visited[city] = true
visitCity(ant, ci, city) ==
    [ant EXCEPT !.trail[ci + 2] = city, !.visited[city] = TRUE]

\* the value calculateTourLength would store in ant.tourLength
\* the loop of calculateTourLength from edge i on, length being the sum so far
RECURSIVE SumEdges(_, _, _, _)
SumEdges(dist, ant, i, length) ==
    IF i >= ant.trailSize - 1 THEN length
    ELSE SumEdges(dist, ant, i + 1,
                  FAdd(length, dist[ant.trail[i + 1]][ant.trail[i + 2]]))

calculateTourLength(ant, dist) ==
    SumEdges(dist, ant, 0, dist[ant.trail[ant.trailSize]][ant.trail[1]])

(***************************************************************************)
(* InitiateOptimization: setupAnts, clearTrails                            *)
(***************************************************************************)
\* the position reached when the loop condition i < maxIterations is tested
LoopTest(i) == IF i < maxIterations THEN "moveAnts" ELSE "done"

setupAnts(start) ==
    [a \in 1..numberOfAnts |->
        visitCity(clear(newAnt(numberOfCities, tasks[a].FacetsValue)),
                  -1, start[a])]

SetupAnts ==
    /\ pc = "constructed"
    /\ \E start \in [1..numberOfAnts -> IntnDraws(numberOfCities)] :
          ants' = setupAnts(start)
    /\ currentIndex' = 0
    /\ pc' = "clearTrails"
    /\ UNCHANGED <<tasks, numberOfCities, numberOfAnts, pheromones, distances,
                   probabilities, bestTourOrder, bestTourLength, iter, antIx,
                   priorityMap, panicMsg>>

ClearTrails ==
    /\ pc = "clearTrails"
    /\ pheromones' = clearTrails(numberOfCities)
    /\ iter' = 0
    /\ antIx' = 0
    /\ pc' = LoopTest(0)
    /\ UNCHANGED <<tasks, numberOfCities, numberOfAnts, distances,
                   probabilities, ants, currentIndex, bestTourOrder,
                   bestTourLength, priorityMap, panicMsg>>

(***************************************************************************)
(* moveAnts: selectNextCity, calculateProbabilities                        *)
(***************************************************************************)
\* pow(pheromones[i][l], alpha) * pow(1.0/distances[i][l]*CPU, beta)
desirability(ant, i, l) ==
    FMul(FPow(pheromones[i][l], alpha),
         FPow(FMul(FDiv(One, distances[i][l]), ant.facetsValues.CPU), beta))

\* the first loop of calculateProbabilities, from city l on
RECURSIVE pheromoneSum(_, _, _, _)
pheromoneSum(ant, i, l, pheromone) ==
    IF l >= numberOfCities THEN pheromone
    ELSE IF ant.visited[l] THEN pheromoneSum(ant, i, l + 1, pheromone)
    ELSE pheromoneSum(ant, i, l + 1,
                      FAdd(pheromone, desirability(ant, i, l)))

\* rd.probabilities after calculateProbabilities(ant)
calculateProbabilities(ant) ==
    LET i == ant.trail[currentIndex + 1]
        pheromone == pheromoneSum(ant, i, 0, Zero)
    IN [j \in Cities |->
          IF ant.visited[j] THEN Zero
          ELSE FDiv(desirability(ant, i, j), pheromone)]

\* the roulette loop of selectNextCity from city i on: the city returned,
\* or -1 when the loop ends without returning (the panic)
RECURSIVE roulette(_, _, _, _)
roulette(p, r, i, total) ==
    IF i >= numberOfCities THEN -1
    ELSE LET t == FAdd(total, p[i])
         IN IF FGeq(t, r) THEN i ELSE roulette(p, r, i + 1, t)

\* the random branch of selectNextCity returns city t
randomBranch(ant, t, f) ==
    /\ FLess(f, randomFactor)
    /\ t \in Cities
    /\ ~ant.visited[t]

\* selectNextCity(ant) with the draws t = Intn(..), f and r = Float64():
\* the city returned (-1: panic) and rd.probabilities afterwards.  p is the
\* vector calculateProbabilities(ant) stores when the call reaches line 509.
selectNextCity(ant, p, t, f, r) ==
    IF randomBranch(ant, t, f)
    THEN [city |-> t, probabilities |-> probabilities]
    ELSE [city |-> roulette(p, r, 0, Zero), probabilities |-> p]

\* one pass of the inner loop body of moveAnts:
\* ant.visitCity(rd.currentIndex, rd.selectNextCity(ant))
MoveAntsStep ==
    /\ pc = "moveAnts"
    /\ currentIndex < numberOfCities - 1
    /\ \E ant \in {ants[antIx + 1]} :
       \E p \in {calculateProbabilities(ant)} :
       \E res \in {selectNextCity(ant, p, t, f, r) :
                       t \in IntnDraws(numberOfCities - currentIndex),
                       f \in FloatDraws, r \in FloatDraws} :
             /\ probabilities' = res.probabilities
             /\ IF res.city = -1
                THEN /\ pc' = "panic"
                     /\ panicMsg' = "There are no other cities"
                     /\ UNCHANGED <<ants, antIx, currentIndex>>
                ELSE /\ ants' = [ants EXCEPT ![antIx + 1] =
                                    visitCity(ant, currentIndex, res.city)]
                     /\ IF antIx + 1 < numberOfAnts
                        THEN antIx' = antIx + 1 /\ UNCHANGED currentIndex
                        ELSE antIx' = 0 /\ currentIndex' = currentIndex + 1
                     /\ UNCHANGED <<pc, panicMsg>>
    /\ UNCHANGED <<tasks, numberOfCities, numberOfAnts, pheromones, distances,
                   bestTourOrder, bestTourLength, iter, priorityMap>>

\* the outer loop condition i < numberOfCities-1 fails: moveAnts returns
MoveAntsReturn ==
    /\ pc = "moveAnts"
    /\ ~(currentIndex < numberOfCities - 1)
    /\ pc' = "updateTrails"
    /\ UNCHANGED <<tasks, numberOfCities, numberOfAnts, pheromones, distances,
                   probabilities, ants, currentIndex, bestTourOrder,
                   bestTourLength, iter, antIx, priorityMap, panicMsg>>

(***************************************************************************)
(* updateTrails                                                            *)
(***************************************************************************)
evaporate(ph) ==
    [i \in Cities |-> [j \in Cities |-> FMul(ph[i][j], remainingFactor)]]

contribution(ant) == FDiv(q, ant.tourLength)

\* the edges 0..numberOfCities-2 of the trail from edge i on, then the closing edge
RECURSIVE depositTrail(_, _, _)
depositTrail(ph, ant, i) ==
    IF i < numberOfCities - 1
    THEN depositTrail(
            [ph EXCEPT ![ant.trail[i + 1]][ant.trail[i + 2]] =
                            FAdd(@, contribution(ant))],
            ant, i + 1)
    ELSE [ph EXCEPT ![ant.trail[numberOfCities]][ant.trail[1]] =
                            FAdd(@, contribution(ant))]

\* the loop over rd.ants from the k-th ant on
RECURSIVE reinforce(_, _)
reinforce(ph, k) ==
    IF k > Len(ants) THEN ph
    ELSE reinforce(depositTrail(ph, ants[k], 0), k + 1)

updateTrails == reinforce(evaporate(pheromones), 1)

UpdateTrails ==
    /\ pc = "updateTrails"
    /\ pheromones' = updateTrails
    /\ pc' = "updateBest"
    /\ UNCHANGED <<tasks, numberOfCities, numberOfAnts, distances,
                   probabilities, ants, currentIndex, bestTourOrder,
                   bestTourLength, iter, antIx, priorityMap, panicMsg>>

(***************************************************************************)
(* updateBest                                                              *)
(***************************************************************************)
\* a variant of BestLengthOf that records the ant's trailSize in place of
\* its tourLength
BestLengthOf_trailSize(ant) == Fin(ant.trailSize, 1)

\* the value stored in rd.bestTourLength for an ant (lines 462 and 467)
BestLengthOf(ant) == ant.tourLength

\* the loop over rd.ants from the k-th ant on
RECURSIVE scanBest(_, _)
scanBest(best, k) ==
    IF k > Len(ants) THEN best
    ELSE IF FLess(ants[k].tourLength, best.length)
         THEN scanBest([order |-> ants[k].trail,
                        length |-> BestLengthOf(ants[k])], k + 1)
         ELSE scanBest(best, k + 1)

updateBest ==
    scanBest(IF bestTourOrder = Nil
             THEN [order |-> ants[1].trail, length |-> BestLengthOf(ants[1])]
             ELSE [order |-> bestTourOrder, length |-> bestTourLength],
             1)

UpdateBest ==
    /\ pc = "updateBest"
    /\ IF bestTourOrder = Nil /\ Len(ants) = 0
       THEN \* rd.ants[0] on an empty slice
            /\ pc' = "panic"
            /\ panicMsg' = "index out of range [0] with length 0"
            /\ UNCHANGED <<bestTourOrder, bestTourLength, iter>>
       ELSE /\ bestTourOrder' = updateBest.order
            /\ bestTourLength' = updateBest.length
            /\ iter' = iter + 1
            /\ pc' = LoopTest(iter + 1)
            /\ UNCHANGED panicMsg
    /\ UNCHANGED <<tasks, numberOfCities, numberOfAnts, pheromones, distances,
                   probabilities, ants, currentIndex, antIx, priorityMap>>

(***************************************************************************)
(* getPriorityMap                                                          *)
(***************************************************************************)
\* the map built by walking order: each key keeps the last priority written
getPriorityMap(order) ==
    IF order = Nil THEN <<>>
    ELSE [key \in {order[k] : k \in 1..Len(order)} |->
            CHOOSE p \in 1..Len(order) :
                /\ order[p] = key
                /\ \A p2 \in 1..Len(order) : order[p2] = key => p2 <= p]

GetPriorityMap ==
    /\ pc = "done"
    /\ priorityMap' = getPriorityMap(bestTourOrder)
    /\ pc' = "ranked"
    /\ UNCHANGED <<tasks, numberOfCities, numberOfAnts, pheromones, distances,
                   probabilities, ants, currentIndex, bestTourOrder,
                   bestTourLength, iter, antIx, panicMsg>>

Next ==
    \/ NewRouteDiscovery
    \/ SetupAnts
    \/ ClearTrails
    \/ MoveAntsStep
    \/ MoveAntsReturn
    \/ UpdateTrails
    \/ UpdateBest
    \/ GetPriorityMap

Spec == Init /\ [][Next]_vars

(***************************************************************************)
(* Properties                                                              *)
(***************************************************************************)
\* the construction phase (setupAnts, moveAnts) of the run has completed
ConstructionDone == pc \in {"updateTrails", "updateBest", "done", "ranked"}

\* the run of InitiateOptimization has finished
Finished == pc \in {"done", "ranked"}

IsPermutation(trail) ==
    /\ Len(trail) = numberOfCities
    /\ {trail[k] : k \in 1..Len(trail)} = Cities

\* the sum of the latencies of the tasks that are the cities 0..n-1
RECURSIVE LatencySum(_)
LatencySum(n) ==
    IF n = 0 THEN Zero
    ELSE FAdd(tasks[n].FacetsValue.Latency, LatencySum(n - 1))

\* C1: once the construction phase has completed, every ant's trail holds
\* each city 0..numberOfCities-1 exactly once, whatever the random draws were.
C1_TrailsArePermutations ==
    ConstructionDone => \A a \in 1..Len(ants) : IsPermutation(ants[a].trail)

\* C2: when InitiateOptimization has finished, bestTourLength is the cost of
\* a closed tour over all cities, the sum of the task latencies; for the
\* tasks with latencies 10, 1 and 5 it is 16.
C2_BestCostIsLatencySum ==
    Finished =>
        /\ bestTourLength = LatencySum(numberOfCities)
        /\ tasks = ScenarioTasks => bestTourLength = Fin(16, 1)

\* C3: once updateBest has run, bestTourLength is at most the tourLength of
\* every ant of the run, and no step increases bestTourLength afterwards.
C3_BestIsLowerBoundAndNonIncreasing ==
    /\ [](bestTourOrder # Nil =>
            \A a \in 1..Len(ants) : FGeq(ants[a].tourLength, bestTourLength))
    /\ [][bestTourOrder # Nil => FGeq(bestTourLength, bestTourLength')]_vars

\* updateBest has run in two iterations over ants with completed tours
C3_Witness ==
    /\ iter >= 2
    /\ bestTourOrder # Nil
    /\ numberOfCities >= 2
    /\ \A a \in 1..Len(ants) : FGeq(ants[a].tourLength, bestTourLength)

\* C4: every entry of the pheromone matrix is a well-defined (finite)
\* non-negative value in every state after NewRouteDiscovery (the float64
\* values of the model carry no sign: not being finite is the only way to
\* fail).
C4_PheromonesFiniteNonNegative ==
    pc # "start" =>
        \A i \in Cities : \A j \in Cities :
            IsFin(pheromones[i][j])

\* C5: after a finished run on N >= 1 distinct task identifiers the map
\* returned by getPriorityMap has exactly N entries and its values are
\* exactly 1..N.
C5_PriorityMapHasRanksOneToN ==
    (pc = "ranked" /\ numberOfCities >= 1) =>
        /\ Cardinality(DOMAIN priorityMap) = numberOfCities
        /\ {priorityMap[key] : key \in DOMAIN priorityMap} = 1..numberOfCities

\* C6: the keys of the map returned by getPriorityMap are task identifiers:
\* the TaskID of the task that is the k-th visited city (0-based) of the
\* best tour is mapped to rank k+1.
C6_KeysAreTaskIDs ==
    pc = "ranked" =>
        \A k \in 1..Len(bestTourOrder) :
            LET id == tasks[bestTourOrder[k] + 1].TaskID
            IN id \in DOMAIN priorityMap /\ priorityMap[id] = k

\* C7: an empty task list is rejected: no engine with numberOfCities = 0 is
\* constructed and run, so the run never ends in a crash.
C7_EmptyListNeverCrashes ==
    Len(tasks) = 0 => pc # "panic"

\* C8: after NewRouteDiscovery, distances[i][j] is the Latency of the
\* destination task j for i # j, and distances[i][i] = 0.
C8_CostIsDestinationLatency ==
    pc # "start" =>
        \A i \in Cities : \A j \in Cities :
            distances[i][j] =
                IF i = j THEN Zero ELSE tasks[j + 1].FacetsValue.Latency

\* C10: when moveAnts has returned and updateTrails or updateBest is about to
\* read it, every ant's tourLength is the cost of its closed trail.
C10_TourLengthComputedBeforeUse ==
    pc \in {"updateTrails", "updateBest"} =>
        \A a \in 1..Len(ants) :
            ants[a].tourLength = calculateTourLength(ants[a], distances)

\* C11: whenever an iteration of InitiateOptimization begins its
\* construction phase (control enters moveAnts) the ants have been reset:
\* the step index is 0 and every ant has visited only its start city, so
\* that the iteration builds new tours by numberOfCities-1 selection steps.
C11_AntsResetEveryIteration ==
    [][(pc # "moveAnts" /\ pc' = "moveAnts" /\ numberOfCities >= 2) =>
          /\ currentIndex' = 0
          /\ \A a \in 1..Len(ants') :
                Cardinality({c \in Cities : ants'[a].visited[c]}) = 1]_vars

\* C12: for a task set with at least two cities (all facets of the inputs
\* are finite and non-negative) no call of selectNextCity ends in the panic
\* "There are no other cities".
C12_NoExhaustedSearch ==
    numberOfCities >= 2 => panicMsg # "There are no other cities"

====
